---- MODULE Spec2Model ----
(***************************************************************************)
(* A model of src/app.py, the Streamlit accent analyser: the click handler *)
(* of main(), the two audio normalizers, the Gemini client, the response   *)
(* parser and the temp-resource tracker kept in st.session_state.          *)
(*                                                                         *)
(* Text is a sequence of lexical tokens (a fence, a brace, a quoted string *)
(* literal, a newline, ...), so that the regular expression, str.strip and *)
(* json.loads of the source are computed on it, not assumed.               *)
(***************************************************************************)
EXTENDS Integers, Sequences, FiniteSets, TLC

\* ------------------------------------------------------------------ bounds
\* Script runs with the Analyze button pressed that one session makes.
MaxRuns == 2
\* Length of the arbitrary token texts handed to the parser.
MaxJunkLen == 2
\* Calls of cleanup_temp_resources in a row, with no registration between.
MaxCleanupsInRow == 2

\* ------------------------------------------------------------------- text
\* The fence of a code block: three backquotes (a backquote cannot stand in
\* a string here, so the token is written with apostrophes).
FENCE == "'''"
TAG == "json"
NL == "\n"
SP == " "
LB == "{"
RB == "}"
COLON == ":"
COMMA == ","
NUM == "42"
NULL == "null"
PROSE == "Sure"

Whitespace == {SP, NL}

\* The contents of the string literals a text may hold.
StrContents ==
    {"accent_prediction", "confidence", "summary", "other",
     "American English", "85%", "test"}

\* A string literal as it stands in JSON text: the content in double quotes.
Quote(c) ==
    CASE c = "accent_prediction" -> "\"accent_prediction\""
      [] c = "confidence" -> "\"confidence\""
      [] c = "summary" -> "\"summary\""
      [] c = "other" -> "\"other\""
      [] c = "American English" -> "\"American English\""
      [] c = "85%" -> "\"85%\""
      [] c = "test" -> "\"test\""

IsStringTok(tok) == \E c \in StrContents : Quote(c) = tok

\* json's decoding of a string literal: the content without the quotes.
Unquote(tok) == CHOOSE c \in StrContents : Quote(c) = tok

Tokens ==
    {FENCE, TAG, NL, SP, LB, RB, COLON, COMMA, NUM, NULL, PROSE}
        \cup {Quote(c) : c \in {"summary", "test"}}

Min(S) == CHOOSE x \in S : \A y \in S : x <= y

\* ---------------------------------------------------------- Python values
\* A Python value: str (s, its pieces), int, None, or dict (items, in order).
PyStr(pieces) == [t |-> "str", s |-> pieces, items |-> <<>>]
PyInt == [t |-> "int", s |-> <<NUM>>, items |-> <<>>]
PyNone == [t |-> "NoneType", s |-> <<>>, items |-> <<>>]
PyDict(items) == [t |-> "dict", s |-> <<>>, items |-> items]

NA == PyStr(<<"N/A">>)

\* ------------------------------------------------------------- json.loads
SkipWs(t, i) ==
    LET S == {k \in i..Len(t) : t[k] \notin Whitespace}
    IN  IF S = {} THEN Len(t) + 1 ELSE Min(S)

ParseFail == [ok |-> FALSE, val |-> PyNone, next |-> 0]

\* A number is the longest run of digits: adjacent NUM tokens are one number.
EndOfNumber(t, i) ==
    LET S == {k \in i..Len(t) : t[k] # NUM}
    IN  IF S = {} THEN Len(t) + 1 ELSE Min(S)

RECURSIVE ParseValue(_, _)
RECURSIVE ParseMembers(_, _, _)

\* The value starting at token i of t (i is past any whitespace).
ParseValue(t, i) ==
    IF i > Len(t) THEN ParseFail
    ELSE IF IsStringTok(t[i])
        THEN [ok |-> TRUE, val |-> PyStr(<<Unquote(t[i])>>), next |-> i + 1]
    ELSE IF t[i] = NUM
        THEN [ok |-> TRUE, val |-> PyInt, next |-> EndOfNumber(t, i)]
    ELSE IF t[i] = NULL THEN [ok |-> TRUE, val |-> PyNone, next |-> i + 1]
    ELSE IF t[i] = LB
        THEN LET k == SkipWs(t, i + 1)
             IN  IF k <= Len(t) /\ t[k] = RB
                     THEN [ok |-> TRUE, val |-> PyDict(<<>>), next |-> k + 1]
                     ELSE ParseMembers(t, k, <<>>)
    ELSE ParseFail

\* The members of an object from the key at token i on; acc holds those read.
ParseMembers(t, i, acc) ==
    IF i > Len(t) \/ ~IsStringTok(t[i]) THEN ParseFail
    ELSE LET c == SkipWs(t, i + 1)
         IN  IF c > Len(t) \/ t[c] # COLON THEN ParseFail
             ELSE LET v == ParseValue(t, SkipWs(t, c + 1))
                  IN  IF ~v.ok THEN ParseFail
                      ELSE LET e == SkipWs(t, v.next)
                               items == Append(acc, [k |-> Unquote(t[i]), v |-> v.val])
                           IN  IF e > Len(t) THEN ParseFail
                               ELSE IF t[e] = RB
                                   THEN [ok |-> TRUE, val |-> PyDict(items), next |-> e + 1]
                               ELSE IF t[e] = COMMA
                                   THEN ParseMembers(t, SkipWs(t, e + 1), items)
                               ELSE ParseFail

\* json.loads(s): the one value of the text, whitespace allowed around it;
\* anything else is a JSONDecodeError.
JsonLoads(s) ==
    LET v == ParseValue(s, SkipWs(s, 1))
    IN  IF v.ok /\ SkipWs(s, v.next) > Len(s)
            THEN [exc |-> "none", val |-> v.val]
            ELSE [exc |-> "JSONDecodeError", val |-> PyNone]

\* dict.get(key, default): the last item of that key wins, as in a dict built
\* from JSON text that repeats a key.
DictGet(d, key, default) ==
    LET hits == {n \in 1..Len(d.items) : d.items[n].k = key}
    IN  IF hits = {} THEN default
        ELSE d.items[CHOOSE n \in hits : \A m \in hits : m <= n].v

\* ---------------------------------------------------- parse_gemini_output
\* re.search(FENCE json NL ({.*?}) NL FENCE, text, re.DOTALL): whether it matches,
\* and group 1 of the leftmost match, the shortest one from there.
ReSearchFencedJson(text) ==
    LET n == Len(text)
        Ends(i) == {j \in (i + 4)..(n - 2) :
                      text[j] = RB /\ text[j + 1] = NL /\ text[j + 2] = FENCE}
        Starts == {i \in 1..(n - 3) :
                      /\ text[i] = FENCE /\ text[i + 1] = TAG
                      /\ text[i + 2] = NL /\ text[i + 3] = LB
                      /\ Ends(i) # {}}
    IN  IF Starts = {} THEN [matched |-> FALSE, group |-> <<>>]
        ELSE LET i == Min(Starts)
             IN  [matched |-> TRUE, group |-> SubSeq(text, i + 3, Min(Ends(i)))]

\* The summary an except clause writes: f"<label>: {e}. Raw output: {raw}".
ErrorSummary(label, raw) == PyStr(<<label, ". Raw output: ">> \o raw)

Unparsed == [accent_prediction |-> NA, confidence |-> NA, summary |-> NA]

\* Lines 157-160: json.loads and the three data.get calls; exc is the
\* exception they end with ("none": they complete), data is parsed_data then.
LoadFields(json_string) ==
    LET loaded == JsonLoads(json_string)
    IN  IF loaded.exc # "none" THEN [exc |-> loaded.exc, data |-> Unparsed]
        ELSE IF loaded.val.t # "dict"
            THEN [exc |-> "AttributeError", data |-> Unparsed]
        ELSE [exc |-> "none",
              data |-> [accent_prediction |->
                            DictGet(loaded.val, "accent_prediction", NA),
                        confidence |-> DictGet(loaded.val, "confidence", NA),
                        summary |-> DictGet(loaded.val, "summary", NA)]]

\* A slip: without a fence match json_string stays None, and json.loads(None)
\* is a TypeError.
ParseTryBlockFenceRequired(gemini_output) ==
    LET json_match == ReSearchFencedJson(gemini_output)
    IN  IF json_match.matched THEN LoadFields(json_match.group)
        ELSE [exc |-> "TypeError", data |-> Unparsed]

\* The try block (lines 150-160).
ParseTryBlock(gemini_output) ==
    LET json_match == ReSearchFencedJson(gemini_output)
        json_string == IF json_match.matched THEN json_match.group
                       ELSE gemini_output
    IN  LoadFields(json_string)

\* A slip: only json.JSONDecodeError is caught, any other exception leaves
\* the call.
ParseExceptJsonOnly(body, gemini_output) ==
    IF body.exc = "JSONDecodeError"
        THEN [exc |-> "none", ui |-> {"error_parse_json"},
              ret |-> [body.data EXCEPT !.summary =
                          ErrorSummary("JSON Parsing Error", gemini_output)]]
        ELSE [exc |-> body.exc, ui |-> {}, ret |-> body.data]

\* The two except clauses (lines 161-168) and the return: exc is the
\* exception that leaves the call ("none": it returns), ret the returned
\* parsed_data, ui the messages shown.
ParseExcept(body, gemini_output) ==
    IF body.exc = "JSONDecodeError"
        THEN [exc |-> "none", ui |-> {"error_parse_json"},
              ret |-> [body.data EXCEPT !.summary =
                          ErrorSummary("JSON Parsing Error", gemini_output)]]
    ELSE IF body.exc # "none"
        THEN [exc |-> "none", ui |-> {"error_parse"},
              ret |-> [body.data EXCEPT !.summary =
                          ErrorSummary("Parsing Error", gemini_output)]]
    ELSE [exc |-> "none", ui |-> {}, ret |-> body.data]

parse_gemini_output(gemini_output) ==
    ParseExcept(ParseTryBlock(gemini_output), gemini_output)

\* response.text.strip(): the text without its leading and trailing whitespace.
Strip(text) ==
    LET S == {k \in 1..Len(text) : text[k] \notin Whitespace}
    IN  IF S = {} THEN <<>>
        ELSE SubSeq(text, Min(S), CHOOSE k \in S : \A m \in S : m <= k)


\* An optional str: None, or a text.
NoneText == [none |-> TRUE, text |-> <<>>]
SomeText(text) == [none |-> FALSE, text |-> text]
\* Python truth of an optional str: neither None nor "".
Truthy(o) == ~o.none /\ o.text # <<>>

\* ------------------------------------------------------------- file system
\* A temp path is named by what made it and by the run that made it:
\*   upload  temp_input_path of convert_to_wav (NamedTemporaryFile)
\*   wav     temp_wav_path of convert_to_wav (NamedTemporaryFile)
\*   dir     temp_dir of download_and_extract_audio_from_url (mkdtemp)
\*   dl      the WAV yt-dlp is to leave in temp_dir
\*   part    any other file yt-dlp leaves in temp_dir
NoPath == [kind |-> "None", run |-> 0]
Path(kind, run) == [kind |-> kind, run |-> run]

Parent(p) == IF p.kind \in {"dl", "part"} THEN Path("dir", p.run) ELSE NoPath

\* fs.files: the files that exist; fs.empty: those of size 0; fs.dirs: the
\* directories that exist.
EmptyFs == [files |-> {}, empty |-> {}, dirs |-> {}]

Exists(fs, p) == p \in fs.files \/ p \in fs.dirs

\* A file written with content, or created empty.
CreateFile(fs, p, size) ==
    [fs EXCEPT !.files = @ \cup {p},
               !.empty = IF size = 0 THEN @ \cup {p} ELSE @ \ {p}]
CreateDir(fs, d) == [fs EXCEPT !.dirs = @ \cup {d}]

RemoveFile(fs, p) == [fs EXCEPT !.files = @ \ {p}, !.empty = @ \ {p}]
RemoveTree(fs, d) ==
    [files |-> {f \in fs.files : Parent(f) # d},
     empty |-> {f \in fs.empty : Parent(f) # d},
     dirs |-> fs.dirs \ {d}]

\* os.remove(p): an OSError when p is locked or is no file, else p is gone.
OsRemove(fs, p, locked) ==
    IF p \in locked \/ p \notin fs.files
        THEN [exc |-> TRUE, fs |-> fs]
        ELSE [exc |-> FALSE, fs |-> RemoveFile(fs, p)]

\* shutil.rmtree(d): an error when d or a file in it is locked or d is no
\* directory (the tree is then left as it was), else d and its files are gone.
ShutilRmtree(fs, d, locked) ==
    IF \/ d \in locked \/ d \notin fs.dirs
       \/ \E f \in fs.files : Parent(f) = d /\ f \in locked
        THEN [exc |-> TRUE, fs |-> fs]
        ELSE [exc |-> FALSE, fs |-> RemoveTree(fs, d)]

SeqToSet(q) == {q[n] : n \in 1..Len(q)}

\* ------------------------------------------------- cleanup_temp_resources
\* One loop of cleanup_temp_resources over paths[i..]: for each path that
\* exists, the removal is attempted; with swallow (try / except: pass) an
\* error is dropped and the loop goes on, without it the error ends the loop.
RECURSIVE CleanupLoop(_, _, _, _, _, _, _)
CleanupLoop(paths, i, fs, locked, isDir, swallow, attempted) ==
    IF i > Len(paths) THEN [fs |-> fs, attempted |-> attempted, raised |-> FALSE]
    ELSE IF ~Exists(fs, paths[i])
        THEN CleanupLoop(paths, i + 1, fs, locked, isDir, swallow, attempted)
    ELSE LET r == IF isDir THEN ShutilRmtree(fs, paths[i], locked)
                  ELSE OsRemove(fs, paths[i], locked)
             att == attempted \cup {paths[i]}
         IN  IF r.exc /\ ~swallow
                 THEN [fs |-> r.fs, attempted |-> att, raised |-> TRUE]
                 ELSE CleanupLoop(paths, i + 1, r.fs, locked, isDir, swallow, att)

\* A slip: no try around the removals, so the first error leaves the call
\* with the lists as they were.
CleanupNoTry(files, dirs, fs, locked) ==
    LET a == CleanupLoop(files, 1, fs, locked, FALSE, FALSE, {})
        b == CleanupLoop(dirs, 1, a.fs, locked, TRUE, FALSE, a.attempted)
    IN  IF a.raised
            THEN [temp_file_paths |-> files, temp_dirs_to_clean |-> dirs,
                  fs |-> a.fs, attempted |-> a.attempted, raised |-> TRUE]
        ELSE IF b.raised
            THEN [temp_file_paths |-> <<>>, temp_dirs_to_clean |-> dirs,
                  fs |-> b.fs, attempted |-> b.attempted, raised |-> TRUE]
        ELSE [temp_file_paths |-> <<>>, temp_dirs_to_clean |-> <<>>,
              fs |-> b.fs, attempted |-> b.attempted, raised |-> FALSE]

\* A slip: the two lists are not reset.
CleanupNoReset(files, dirs, fs, locked) ==
    LET a == CleanupLoop(files, 1, fs, locked, FALSE, TRUE, {})
        b == CleanupLoop(dirs, 1, a.fs, locked, TRUE, TRUE, a.attempted)
    IN  [temp_file_paths |-> files, temp_dirs_to_clean |-> dirs,
         fs |-> b.fs, attempted |-> b.attempted, raised |-> FALSE]

\* cleanup_temp_resources() on the two tracked lists: the lists and the file
\* system after it, the paths whose removal it attempted, and whether an
\* exception left it. locked: the paths whose removal fails.
Cleanup(files, dirs, fs, locked) ==
    LET a == CleanupLoop(files, 1, fs, locked, FALSE, TRUE, {})
        b == CleanupLoop(dirs, 1, a.fs, locked, TRUE, TRUE, a.attempted)
    IN  [temp_file_paths |-> <<>>, temp_dirs_to_clean |-> <<>>,
         fs |-> b.fs, attempted |-> b.attempted, raised |-> FALSE]

\* What one call of cleanup_temp_resources saw and did.
CleanupRecord(files, dirs, fs, r) ==
    [called |-> TRUE,
     tracked |-> SeqToSet(files) \cup SeqToSet(dirs),
     existed |-> {p \in SeqToSet(files) \cup SeqToSet(dirs) : Exists(fs, p)},
     attempted |-> r.attempted,
     removed |-> {p \in fs.files \cup fs.dirs : ~Exists(r.fs, p)},
     raised |-> r.raised]

NoCleanup ==
    [called |-> FALSE, tracked |-> {}, existed |-> {},
     attempted |-> {}, removed |-> {}, raised |-> FALSE]

\* ------------------------------------------------------------ normalizers
\* How far convert_to_wav gets before a library call raises:
\*   tmp_in_failed   the first NamedTemporaryFile raises (line 75)
\*   write_failed    temp_input.write raises, the file being created (line 76)
\*   tmp_out_failed  the second NamedTemporaryFile raises (line 81)
\*   decode_failed   AudioSegment.from_file or export raises (lines 85-87)
\*   export_empty    export returns and the WAV holds nothing
\*   ok              export returns and the WAV holds audio
ConvertOutcomes ==
    {"tmp_in_failed", "write_failed", "tmp_out_failed", "decode_failed",
     "export_empty", "ok"}

\* convert_to_wav(uploaded_file) in run number run: ret is the returned path
\* (NoPath: None), created the paths it made on disk.
ConvertToWav(outcome, run, files, fs) ==
    LET in == Path("upload", run)
        out == Path("wav", run)
        failed == {"error_convert", "warning_ffmpeg"}
    IN  CASE outcome = "tmp_in_failed" ->
                [ret |-> NoPath, temp_file_paths |-> files, fs |-> fs,
                 created |-> {}, ui |-> failed]
          [] outcome = "write_failed" ->
                [ret |-> NoPath, temp_file_paths |-> files,
                 fs |-> CreateFile(fs, in, 0),
                 created |-> {in}, ui |-> failed]
          [] outcome = "tmp_out_failed" ->
                [ret |-> NoPath, temp_file_paths |-> Append(files, in),
                 fs |-> CreateFile(fs, in, 1),
                 created |-> {in}, ui |-> failed \cup {"info_converting"}]
          [] outcome = "decode_failed" ->
                [ret |-> NoPath,
                 temp_file_paths |-> Append(Append(files, in), out),
                 fs |-> CreateFile(CreateFile(fs, in, 1), out, 0),
                 created |-> {in, out}, ui |-> failed \cup {"info_converting"}]
          [] outcome = "export_empty" ->
                [ret |-> out,
                 temp_file_paths |-> Append(Append(files, in), out),
                 fs |-> CreateFile(CreateFile(fs, in, 1), out, 0),
                 created |-> {in, out},
                 ui |-> {"info_converting", "success_convert"}]
          [] outcome = "ok" ->
                [ret |-> out,
                 temp_file_paths |-> Append(Append(files, in), out),
                 fs |-> CreateFile(CreateFile(fs, in, 1), out, 1),
                 created |-> {in, out},
                 ui |-> {"info_converting", "success_convert"}]

\* What yt-dlp does in temp_dir:
\*   download_error          DownloadError, nothing written
\*   download_error_partial  DownloadError, a partial file left
\*   unexpected_error        another exception (ffmpeg missing), the media left
\*   wav_missing             it returns, no file at the expected WAV path
\*   wav_empty               it returns, the WAV of size 0
\*   ok                      it returns, the WAV holds audio
DownloadOutcomes ==
    {"download_error", "download_error_partial", "unexpected_error",
     "wav_missing", "wav_empty", "ok"}

\* download_and_extract_audio_from_url(url) in run number run.
DownloadAudio(outcome, run, files, dirs, fs) ==
    LET temp_dir == Path("dir", run)
        wav == Path("dl", run)
        part == Path("part", run)
        dirs1 == Append(dirs, temp_dir)
        fs1 == CreateDir(fs, temp_dir)
    IN  CASE outcome = "download_error" ->
                [ret |-> NoPath, temp_file_paths |-> files,
                 temp_dirs_to_clean |-> dirs1, fs |-> fs1,
                 created |-> {temp_dir},
                 ui |-> {"info_download", "error_download"}]
          [] outcome = "download_error_partial" ->
                [ret |-> NoPath, temp_file_paths |-> files,
                 temp_dirs_to_clean |-> dirs1, fs |-> CreateFile(fs1, part, 1),
                 created |-> {temp_dir, part},
                 ui |-> {"info_download", "error_download"}]
          [] outcome = "unexpected_error" ->
                [ret |-> NoPath, temp_file_paths |-> files,
                 temp_dirs_to_clean |-> dirs1, fs |-> CreateFile(fs1, part, 1),
                 created |-> {temp_dir, part},
                 ui |-> {"info_download", "error_unexpected", "warning_ffmpeg"}]
          [] outcome = "wav_missing" ->
                [ret |-> NoPath, temp_file_paths |-> files,
                 temp_dirs_to_clean |-> dirs1, fs |-> CreateFile(fs1, part, 1),
                 created |-> {temp_dir, part},
                 ui |-> {"info_download", "error_no_wav"}]
          [] outcome = "wav_empty" ->
                [ret |-> NoPath, temp_file_paths |-> files,
                 temp_dirs_to_clean |-> dirs1, fs |-> CreateFile(fs1, wav, 0),
                 created |-> {temp_dir, wav},
                 ui |-> {"info_download", "error_no_wav"}]
          [] outcome = "ok" ->
                [ret |-> wav, temp_file_paths |-> Append(files, wav),
                 temp_dirs_to_clean |-> dirs1, fs |-> CreateFile(fs1, wav, 1),
                 created |-> {temp_dir, wav},
                 ui |-> {"info_download", "success_download"}]

\* A slip: only None is refused, a missing or empty file goes on.
PreparedOkNoneOnly(path, fs) == path # NoPath

\* Line 232: whether main takes the prepared audio for usable.
PreparedOk(path, fs) ==
    ~(path = NoPath \/ ~Exists(fs, path) \/ path \in fs.empty)

\* ----------------------------------------- analyze_with_gemini_direct_audio
\* A slip: the empty response is returned as it is.
AnalyzeNoEmptyCheck(path, fs, remote) ==
    IF path = NoPath \/ ~Exists(fs, path)
        THEN [ret |-> NoneText, exc |-> "none", uploaded |-> FALSE,
              ui |-> {"error_invalid_path"}]
    ELSE IF remote.kind = "exception"
        THEN [ret |-> NoneText, exc |-> "none", uploaded |-> TRUE,
              ui |-> {"error_gemini", "warning_gemini", "exception_gemini"}]
    ELSE [ret |-> SomeText(Strip(remote.text)), exc |-> "none",
          uploaded |-> TRUE, ui |-> {"info_sending", "success_gemini"}]

\* analyze_with_gemini_direct_audio(audio_file_path), the remote service
\* answering remote (an exception out of upload_file, generate_content or
\* response.text, or a response text): ret the returned text or None,
\* uploaded whether genai.upload_file was called, exc the exception leaving
\* the call.
AnalyzeWithGemini(path, fs, remote) ==
    IF path = NoPath \/ ~Exists(fs, path)
        THEN [ret |-> NoneText, exc |-> "none", uploaded |-> FALSE,
              ui |-> {"error_invalid_path"}]
    ELSE IF remote.kind = "exception"
        THEN [ret |-> NoneText, exc |-> "none", uploaded |-> TRUE,
              ui |-> {"error_gemini", "warning_gemini", "exception_gemini"}]
    ELSE IF Strip(remote.text) = <<>>
        THEN [ret |-> NoneText, exc |-> "none", uploaded |-> TRUE,
              ui |-> {"info_sending", "warning_empty"}]
    ELSE [ret |-> SomeText(Strip(remote.text)), exc |-> "none",
          uploaded |-> TRUE, ui |-> {"info_sending", "success_gemini"}]

\* -------------------------------------------------------- response texts
\* The remote model writes its answer as it likes; the texts below are the
\* ones the prompt asks for (a JSON object of three keys, fenced as in the
\* prompt's example or not) in several layouts, and texts that are not that.
RECURSIVE Serialize(_, _)
RECURSIVE SerializeItems(_, _, _)

\* The JSON text of a Python value. compact: no whitespace; spaced: a space
\* after each colon and comma; pretty: one member per line, indented.
Serialize(v, style) ==
    CASE v.t = "str" -> <<Quote(v.s[1])>>
      [] v.t = "int" -> <<NUM>>
      [] v.t = "NoneType" -> <<NULL>>
      [] v.t = "dict" ->
            IF v.items = <<>> THEN <<LB, RB>>
            ELSE <<LB>> \o (IF style = "pretty" THEN <<NL, SP>> ELSE <<>>)
                 \o SerializeItems(v.items, 1, style)
                 \o (IF style = "pretty" THEN <<NL>> ELSE <<>>) \o <<RB>>

SerializeItems(items, i, style) ==
    LET member == <<Quote(items[i].k), COLON>>
                    \o (IF style = "compact" THEN <<>> ELSE <<SP>>)
                    \o Serialize(items[i].v, style)
        sep == CASE style = "compact" -> <<COMMA>>
                 [] style = "spaced" -> <<COMMA, SP>>
                 [] style = "pretty" -> <<COMMA, NL, SP>>
    IN  IF i = Len(items) THEN member
        ELSE member \o sep \o SerializeItems(items, i + 1, style)

Styles == {"compact", "spaced", "pretty"}

Fenced(text) == <<FENCE, TAG, NL>> \o text \o <<NL, FENCE>>

Wrap(wrap, text) ==
    CASE wrap = "bare" -> text
      [] wrap = "fenced" -> Fenced(text)
      [] wrap = "prose_fenced" -> <<PROSE, NL>> \o Fenced(text)
      [] wrap = "fenced_prose" -> Fenced(text) \o <<NL, PROSE>>
      [] wrap = "untagged_fence" -> <<FENCE, NL>> \o text \o <<NL, FENCE>>
      [] wrap = "prose_bare" -> <<PROSE, SP>> \o text

\* Wrappings that hand the parser the object: alone, or in a json fence.
ObjectWraps == {"bare", "fenced", "prose_fenced", "fenced_prose"}
\* Wrappings that leave no JSON the parser can find.
BrokenWraps == {"untagged_fence", "prose_bare"}

Nested == PyDict(<<[k |-> "other", v |-> PyStr(<<"test">>)]>>)
AccentVals == {PyStr(<<"American English">>), PyNone, Nested}
ConfidenceVals == {PyStr(<<"85%">>), PyInt, PyStr(<<"test">>)}
SummaryVals == {PyStr(<<"test">>), Nested, PyStr(<<"American English">>)}

\* The object of three keys with these values: its members in the prompt's
\* order or reversed, with or without a fourth member in front.
ObjectOf(f, reversed, extra) ==
    LET a == [k |-> "accent_prediction", v |-> f.accent_prediction]
        c == [k |-> "confidence", v |-> f.confidence]
        m == [k |-> "summary", v |-> f.summary]
    IN  PyDict((IF extra THEN <<[k |-> "other", v |-> PyInt]>> ELSE <<>>)
               \o (IF reversed THEN <<m, c, a>> ELSE <<a, c, m>>))

FieldRecords ==
    [accent_prediction : AccentVals, confidence : ConfidenceVals,
     summary : SummaryVals]

ExampleFields ==
    [accent_prediction |-> PyStr(<<"American English">>),
     confidence |-> PyStr(<<"85%">>), summary |-> PyStr(<<"test">>)]

TextInput(wrap, fields, text) ==
    [kind |-> "text", wrap |-> wrap, fields |-> fields, text |-> text]

RemoteException ==
    [kind |-> "exception", wrap |-> "none", fields |-> Unparsed, text |-> <<>>]

ObjectInputs ==
    {TextInput(w, f, Wrap(w, Serialize(ObjectOf(f, r, x), st))) :
        w \in ObjectWraps \cup BrokenWraps, f \in FieldRecords,
        r \in BOOLEAN, x \in BOOLEAN, st \in Styles}

RECURSIVE TokenSeqs(_)
\* Every text of at most n tokens.
TokenSeqs(n) ==
    IF n = 0 THEN {<<>>}
    ELSE LET shorter == TokenSeqs(n - 1)
         IN  shorter \cup {Append(q, tok) : q \in shorter, tok \in Tokens}

JunkInputs == {TextInput("junk", Unparsed, q) : q \in TokenSeqs(MaxJunkLen)}

\* The raw texts the parser is tried on.
ParserInputs == ObjectInputs \cup JunkInputs

\* What the remote service may answer in a run of the application.
RemoteResponses ==
    {RemoteException,
     TextInput("junk", Unparsed, <<>>),
     TextInput("junk", Unparsed, <<NL, SP>>),
     TextInput("junk", Unparsed, <<PROSE>>),
     TextInput("fenced", ExampleFields,
               Fenced(Serialize(ObjectOf(ExampleFields, FALSE, FALSE), "pretty"))
                   \o <<NL>>),
     TextInput("bare", ExampleFields,
               Serialize(ObjectOf(ExampleFields, FALSE, FALSE), "compact"))}

\* ------------------------------------------------------------------ state
VARIABLES
    temp_file_paths,       \* st.session_state.temp_file_paths
    temp_dirs_to_clean,    \* st.session_state.temp_dirs_to_clean
    on_rerun,              \* st.session_state.on_rerun
    fs,                    \* the temp files and directories on disk
    widget,                \* the radio, the uploader and the URL field
    pc,                    \* where the script run stands in main()
    runs,                  \* script runs with the button pressed so far
    steps,                 \* the states the current run has been through
    processed_audio_path,  \* main's processed_audio_path (NoPath: None)
    gemini_raw_output,     \* main's gemini_raw_output
    parsed_results,        \* main's parsed_results
    ui,                    \* the messages and fields the run has shown
    remote_calls,          \* calls of genai.upload_file in the run
    parser_calls,          \* calls of parse_gemini_output in the run
    parse_exc,             \* the exception that left parse_gemini_output
    created,               \* the paths the run's normalizer made on disk
    norm_outcome,          \* how the run's normalizer call went ("none": not yet)
    sent,                  \* the audio file as it was when upload_file got it
    last_cleanup,          \* what the last cleanup_temp_resources call did
    cleanups_in_row,       \* cleanup calls since the last registration
    input                  \* the response text at hand and how it was built

vars ==
    <<temp_file_paths, temp_dirs_to_clean, on_rerun, fs, widget, pc, runs,
      steps, processed_audio_path, gemini_raw_output, parsed_results, ui,
      remote_calls, parser_calls, parse_exc, created, norm_outcome, sent,
      last_cleanup, cleanups_in_row, input>>

trackerVars == <<temp_file_paths, temp_dirs_to_clean, fs, last_cleanup,
                 cleanups_in_row>>
runVars == <<pc, runs, steps, processed_audio_path, gemini_raw_output,
             parsed_results, ui, remote_calls, parser_calls, parse_exc,
             created, norm_outcome, sent, input>>

Unset == [accent_prediction |-> PyNone, confidence |-> PyNone,
          summary |-> PyNone]

NoSent == [exists |-> FALSE, empty |-> FALSE]

NoInput == [kind |-> "none", wrap |-> "none", fields |-> Unparsed,
            text |-> <<>>]

\* The widgets' values: the source chosen, and the file or the URL given
\* (line 201: no file unless the uploader is shown; line 202: "" likewise).
Widgets ==
    {[audio_source_option |-> "upload", uploaded_file |-> f, video_url |-> ""] :
        f \in {"None", "file"}}
    \cup
    {[audio_source_option |-> "url", uploaded_file |-> "None", video_url |-> u] :
        u \in {"", "url"}}

Tracked == SeqToSet(temp_file_paths) \cup SeqToSet(temp_dirs_to_clean)

\* The sets of paths whose removal may fail: any of the tracked paths on disk.
LockedSets == SUBSET {p \in Tracked : Exists(fs, p)}

\* The state once the script has run for the first time (lines 34-37), with
\* position pc0.
InitAt(pc0) ==
    /\ temp_file_paths = <<>>
    /\ temp_dirs_to_clean = <<>>
    /\ on_rerun = "clean_on_rerun"
    /\ fs = EmptyFs
    /\ widget = [audio_source_option |-> "upload", uploaded_file |-> "None",
                 video_url |-> ""]
    /\ pc = pc0
    /\ runs = 0
    /\ steps = <<>>
    /\ processed_audio_path = NoPath
    /\ gemini_raw_output = NoneText
    /\ parsed_results = Unset
    /\ ui = {}
    /\ remote_calls = 0
    /\ parser_calls = 0
    /\ parse_exc = "none"
    /\ created = {}
    /\ norm_outcome = "none"
    /\ sent = NoSent
    /\ last_cleanup = NoCleanup
    /\ cleanups_in_row = 0

Init == InitAt("Idle") /\ input = NoInput

\* ------------------------------------------------------------ application
\* A script run without the button pressed: the user changed a widget.
\* Lines 269-271 store clean_on_rerun in the session state and call main(),
\* which draws the page and returns at line 214; nothing calls on_rerun.
Rerun ==
    /\ pc = "Idle"
    /\ \E w \in Widgets : w # widget /\ widget' = w
    /\ on_rerun' = "clean_on_rerun"
    /\ UNCHANGED <<trackerVars, runVars>>

\* A script run with the button pressed, up to the normalizer's call
\* (lines 214-229): the input is validated, and the run ends there without it.
ClickAnalyze ==
    /\ pc = "Idle"
    /\ runs < MaxRuns
    /\ runs' = runs + 1
    /\ on_rerun' = "clean_on_rerun"
    /\ processed_audio_path' = NoPath
    /\ gemini_raw_output' = NoneText
    /\ parsed_results' = Unset
    /\ remote_calls' = 0
    /\ parser_calls' = 0
    /\ parse_exc' = "none"
    /\ created' = {}
    /\ norm_outcome' = "none"
    /\ sent' = NoSent
    /\ input' = NoInput
    /\ IF \/ widget.audio_source_option = "upload" /\ widget.uploaded_file = "None"
          \/ widget.audio_source_option = "url" /\ widget.video_url = ""
           THEN /\ ui' = {"error_no_input"}
                /\ steps' = <<"Idle">>
                /\ pc' = "Idle"
           ELSE /\ ui' = {}
                /\ steps' = <<"Idle", "Normalizing">>
                /\ pc' = "Normalizing"
    /\ UNCHANGED <<trackerVars, widget>>

\* A call of convert_to_wav whose temp files are named after run n.
ConvertCall(n) ==
    /\ \E outcome \in ConvertOutcomes :
          LET r == ConvertToWav(outcome, n, temp_file_paths, fs)
          IN  /\ processed_audio_path' = r.ret
              /\ temp_file_paths' = r.temp_file_paths
              /\ fs' = r.fs
              /\ created' = r.created
              /\ norm_outcome' = outcome
              /\ ui' = ui \cup r.ui
              /\ cleanups_in_row' =
                    IF r.temp_file_paths # temp_file_paths THEN 0
                    ELSE cleanups_in_row
    /\ UNCHANGED temp_dirs_to_clean

\* A call of download_and_extract_audio_from_url in run n.
DownloadCall(n) ==
    /\ \E outcome \in DownloadOutcomes :
          LET r == DownloadAudio(outcome, n, temp_file_paths,
                                 temp_dirs_to_clean, fs)
          IN  /\ processed_audio_path' = r.ret
              /\ temp_file_paths' = r.temp_file_paths
              /\ temp_dirs_to_clean' = r.temp_dirs_to_clean
              /\ fs' = r.fs
              /\ created' = r.created
              /\ norm_outcome' = outcome
              /\ ui' = ui \cup r.ui
    /\ cleanups_in_row' = 0

\* Line 222: processed_audio_path = convert_to_wav(uploaded_file).
convert_to_wav ==
    /\ pc = "Normalizing"
    /\ widget.audio_source_option = "upload"
    /\ ConvertCall(runs)
    /\ pc' = "Check"
    /\ UNCHANGED <<on_rerun, widget, runs, steps, gemini_raw_output,
                   parsed_results, remote_calls, parser_calls, parse_exc,
                   sent, last_cleanup, input>>

\* Line 229: processed_audio_path = download_and_extract_audio_from_url(url).
download_and_extract_audio_from_url ==
    /\ pc = "Normalizing"
    /\ widget.audio_source_option = "url"
    /\ DownloadCall(runs)
    /\ pc' = "Check"
    /\ UNCHANGED <<on_rerun, widget, runs, steps, gemini_raw_output,
                   parsed_results, remote_calls, parser_calls, parse_exc,
                   sent, last_cleanup, input>>

\* Lines 232-241: the prepared audio is checked; without a usable file the
\* run reports it and returns.
CheckPrepared ==
    /\ pc = "Check"
    /\ IF PreparedOk(processed_audio_path, fs)
           THEN /\ ui' = ui \cup {"success_ready", "audio_player"}
                /\ steps' = Append(steps, "Normalized")
                /\ pc' = "Analyzing"
           ELSE /\ ui' = ui \cup {"error_prepare"}
                /\ steps' = Append(steps, "NormalizeFailed")
                /\ pc' = "Idle"
    /\ UNCHANGED <<trackerVars, on_rerun, widget, runs, processed_audio_path,
                   gemini_raw_output, parsed_results, remote_calls,
                   parser_calls, parse_exc, created, norm_outcome, sent, input>>

\* A slip: the cleanup is called once the analysis has returned, ahead of
\* the display of its result.
TryStepsCleanupFirst(shown, displayed) ==
    <<"Analyzing">>
        \o (IF shown THEN <<"Analyzed">> ELSE <<"AnalyzeFailed">>)
        \o <<"CleanedUp">>
        \o (IF displayed THEN <<"Parsed", "Displayed">> ELSE <<>>)

\* The states the try statement of lines 245-264 goes through: the call of
\* the client, the parse and the display inside "if gemini_raw_output", and
\* the cleanup in its finally clause.
TrySteps(shown, displayed) ==
    <<"Analyzing">>
        \o (IF shown THEN <<"Analyzed">> ELSE <<"AnalyzeFailed">>)
        \o (IF displayed THEN <<"Parsed", "Displayed">> ELSE <<>>)
        \o <<"CleanedUp">>

\* Lines 245-264, the try statement: the analysis, the display of a result
\* when there is one, the except clause, and in its finally the cleanup.
TryAnalyze ==
    /\ pc = "Analyzing"
    /\ \E remote \in RemoteResponses :
          LET a == AnalyzeWithGemini(processed_audio_path, fs, remote)
              shown == a.exc = "none" /\ Truthy(a.ret)
              p == IF shown THEN parse_gemini_output(a.ret.text)
                   ELSE [exc |-> "none", ui |-> {}, ret |-> Unset]
              displayed == shown /\ p.exc = "none"
          IN  /\ input' = NoInput
              /\ remote_calls' = remote_calls + (IF a.uploaded THEN 1 ELSE 0)
              /\ sent' = IF a.uploaded
                         THEN [exists |-> Exists(fs, processed_audio_path),
                               empty |-> processed_audio_path \in fs.empty]
                         ELSE sent
              /\ gemini_raw_output' = IF a.exc = "none" THEN a.ret ELSE NoneText
              /\ parser_calls' = parser_calls + (IF shown THEN 1 ELSE 0)
              /\ parse_exc' = p.exc
              /\ parsed_results' = IF displayed THEN p.ret ELSE Unset
              /\ ui' = ui \cup a.ui \cup p.ui
                      \cup (IF shown THEN {"subheader_results"} ELSE {})
                      \cup (IF displayed THEN {"result_fields", "raw_output"}
                            ELSE {})
                      \cup (IF a.exc # "none" \/ p.exc # "none"
                            THEN {"error_analysis"} ELSE {})
              /\ steps' = steps \o TrySteps(shown, displayed)
    /\ \E locked \in LockedSets :
          LET c == Cleanup(temp_file_paths, temp_dirs_to_clean, fs, locked)
          IN  /\ temp_file_paths' = c.temp_file_paths
              /\ temp_dirs_to_clean' = c.temp_dirs_to_clean
              /\ fs' = c.fs
              /\ last_cleanup' = CleanupRecord(temp_file_paths,
                                    temp_dirs_to_clean, fs, c)
    /\ cleanups_in_row' = cleanups_in_row + 1
    /\ pc' = "Idle"
    /\ UNCHANGED <<on_rerun, widget, runs, processed_audio_path, created,
                   norm_outcome>>

\* Something outside the application removes a tracked temp file or
\* directory (a temp cleaner, the user).
ExternalRemove ==
    /\ \E p \in Tracked :
          /\ Exists(fs, p)
          /\ fs' = IF p \in fs.dirs THEN RemoveTree(fs, p) ELSE RemoveFile(fs, p)
    /\ UNCHANGED <<temp_file_paths, temp_dirs_to_clean, last_cleanup,
                   cleanups_in_row, on_rerun, widget, runVars>>

Next ==
    \/ Rerun
    \/ ClickAnalyze
    \/ convert_to_wav
    \/ download_and_extract_audio_from_url
    \/ CheckPrepared
    \/ TryAnalyze
    \/ ExternalRemove

Spec == Init /\ [][Next]_vars

\* ----------------------------------------------------- the parser, alone
\* parse_gemini_output applied to one raw text.
InitParse ==
    /\ InitAt("Parser")
    /\ input \in ParserInputs

ParseResponse ==
    /\ pc = "Parser"
    /\ parser_calls = 0
    /\ LET p == parse_gemini_output(input.text)
       IN  /\ parse_exc' = p.exc
           /\ parsed_results' = IF p.exc = "none" THEN p.ret ELSE Unset
           /\ ui' = p.ui
    /\ gemini_raw_output' = SomeText(input.text)
    /\ parser_calls' = 1
    /\ UNCHANGED <<trackerVars, on_rerun, widget, pc, runs, steps,
                   processed_audio_path, remote_calls, created, norm_outcome,
                   sent, input>>

NextParse == ParseResponse

SpecParse == InitParse /\ [][NextParse]_vars

\* ---------------------------------------------------- the tracker, alone
\* The session's two lists driven as a component of its own: the normalizers
\* registering what they make, removals from outside, and calls of
\* clean_on_rerun, in any order.
InitTracker == InitAt("Tracker") /\ input = NoInput

TrackerConvert ==
    /\ pc = "Tracker"
    /\ runs < MaxRuns
    /\ runs' = runs + 1
    /\ ConvertCall(runs + 1)
    /\ UNCHANGED <<on_rerun, widget, pc, steps, gemini_raw_output,
                   parsed_results, remote_calls, parser_calls, parse_exc,
                   sent, last_cleanup, input>>

TrackerDownload ==
    /\ pc = "Tracker"
    /\ runs < MaxRuns
    /\ runs' = runs + 1
    /\ DownloadCall(runs + 1)
    /\ UNCHANGED <<on_rerun, widget, pc, steps, gemini_raw_output,
                   parsed_results, remote_calls, parser_calls, parse_exc,
                   sent, last_cleanup, input>>

\* Lines 266-267: clean_on_rerun() calls cleanup_temp_resources().
clean_on_rerun ==
    /\ pc = "Tracker"
    /\ cleanups_in_row < MaxCleanupsInRow
    /\ \E locked \in LockedSets :
          LET c == Cleanup(temp_file_paths, temp_dirs_to_clean, fs, locked)
          IN  /\ temp_file_paths' = c.temp_file_paths
              /\ temp_dirs_to_clean' = c.temp_dirs_to_clean
              /\ fs' = c.fs
              /\ last_cleanup' = CleanupRecord(temp_file_paths,
                                    temp_dirs_to_clean, fs, c)
    /\ cleanups_in_row' = cleanups_in_row + 1
    /\ UNCHANGED <<on_rerun, widget, runVars>>

NextTracker ==
    \/ TrackerConvert
    \/ TrackerDownload
    \/ ExternalRemove
    \/ clean_on_rerun

SpecTracker == InitTracker /\ [][NextTracker]_vars

\* ----------------------------------------------------------------- claims
TrackedFiles == SeqToSet(temp_file_paths)
TrackedDirs == SeqToSet(temp_dirs_to_clean)

\* The run at hand passed the input validation and has ended.
RunEnded == pc = "Idle" /\ Len(steps) >= 2

Last(q) == q[Len(q)]

\* C1: every analysis attempt that passes input validation ends with
\* cleanup_temp_resources() having run, whichever way it ends, normalization
\* failure included. The claim is stated by what it promises of the end of
\* the run: cleanup_temp_resources always leaves both tracked lists empty
\* (C7), so a run that has ended holds no tracked path.
C1_CleanupUnconditional ==
    RunEnded => temp_file_paths = <<>> /\ temp_dirs_to_clean = <<>>

\* C2: every run starts from a clean TempResourceSet: whatever the earlier
\* runs of the session did, at the start of a run both tracked lists are
\* empty.
C2_RunStartsClean ==
    pc = "Normalizing" => temp_file_paths = <<>> /\ temp_dirs_to_clean = <<>>

\* C3: genai.upload_file is called in a run only if normalization returned
\* the path of a file that exists and is not empty; when normalization
\* reports an error, returns no path or yields a missing or empty file, the
\* run aborts (NormalizeFailed) and no remote call is made.
C3_RemoteCallOnlyForUsableAudio ==
    /\ remote_calls > 0 =>
          /\ norm_outcome = "ok"
          /\ processed_audio_path # NoPath
          /\ sent.exists /\ ~sent.empty
          /\ "Normalized" \in SeqToSet(steps)
    /\ (norm_outcome \notin {"none", "ok"} /\ pc # "Check") =>
          /\ Last(steps) = "NormalizeFailed"
          /\ pc = "Idle"
    /\ "NormalizeFailed" \in SeqToSet(steps) =>
          /\ remote_calls = 0
          /\ "Analyzing" \notin SeqToSet(steps)
          /\ pc = "Idle"

\* A URL that yields no valid media: the run aborted with no remote call.
C3_Witness ==
    /\ norm_outcome = "wav_missing"
    /\ Last(steps) = "NormalizeFailed"
    /\ remote_calls = 0
    /\ pc = "Idle"

\* Whether the parser finds no JSON in the text: neither the fenced block it
\* looks for nor the whole text is JSON.
HoldsNoJson(text) ==
    LET m == ReSearchFencedJson(text)
    IN  JsonLoads(IF m.matched THEN m.group ELSE text).exc # "none"

\* The summary embeds a parse-error indicator and the raw text.
IsParseErrorSummary(summary, raw) ==
    /\ summary.t = "str"
    /\ Len(summary.s) = 2 + Len(raw)
    /\ summary.s[1] \in {"JSON Parsing Error", "Parsing Error"}
    /\ SubSeq(summary.s, 3, Len(summary.s)) = raw

\* C4: parse_gemini_output never raises, whatever the raw text, and returns
\* a record of the three keys; on text that is not JSON the accent and the
\* confidence are "N/A" and the summary holds a parse-error indicator and
\* the raw text.
C4_ParserNeverRaises ==
    parser_calls = 1 =>
        /\ parse_exc = "none"
        /\ DOMAIN parsed_results = {"accent_prediction", "confidence", "summary"}
        /\ (input.wrap \in BrokenWraps \/ HoldsNoJson(input.text)) =>
              /\ parsed_results.accent_prediction = NA
              /\ parsed_results.confidence = NA
              /\ IsParseErrorSummary(parsed_results.summary, input.text)

\* An object in a fence that carries no json tag: the parser degraded.
C4_Witness ==
    /\ parser_calls = 1
    /\ input.wrap = "untagged_fence"
    /\ input.fields = ExampleFields
    /\ parsed_results.accent_prediction = NA
    /\ parsed_results.summary.s[1] = "JSON Parsing Error"

\* C5: for a JSON object of the three keys, parse_gemini_output yields
\* exactly the object's three values, whether the object stands in a fenced
\* json block or alone: the two records are the same.
C5_FencingOptional ==
    (parser_calls = 1 /\ input.wrap \in ObjectWraps) =>
        /\ parse_exc = "none"
        /\ parsed_results = input.fields

\* The spec's example object, fenced, parsed to its three values.
C5_Witness ==
    /\ parser_calls = 1
    /\ input.wrap = "fenced"
    /\ input.fields = ExampleFields
    /\ parsed_results = ExampleFields

\* C6: cleanup is idempotent: a second call of cleanup_temp_resources with
\* no registration since the first attempts nothing, removes nothing and
\* leaves both lists empty, and no call raises, also when tracked paths were
\* removed from outside or could not be removed.
C6_CleanupIdempotent ==
    /\ last_cleanup.called => ~last_cleanup.raised
    /\ cleanups_in_row >= 1 =>
          temp_file_paths = <<>> /\ temp_dirs_to_clean = <<>>
    /\ cleanups_in_row >= 2 =>
          last_cleanup.attempted = {} /\ last_cleanup.removed = {}

\* Two calls in a row, the first of which could not remove a file.
C6_Witness ==
    /\ pc = "Tracker"
    /\ cleanups_in_row = 2
    /\ last_cleanup.called
    /\ fs.files # {}

\* C7: cleanup is best effort per path: the removal of every tracked file
\* and directory that exists is attempted, a failed removal stops neither
\* the call nor the attempts on the other paths, and after the call both
\* lists are empty whichever removals failed.
C7_CleanupBestEffort ==
    last_cleanup.called =>
        /\ last_cleanup.attempted = last_cleanup.existed
        /\ ~last_cleanup.raised
        /\ cleanups_in_row >= 1 =>
              temp_file_paths = <<>> /\ temp_dirs_to_clean = <<>>

\* A call in which one removal failed and another path was removed.
C7_Witness ==
    /\ pc = "Tracker"
    /\ cleanups_in_row = 1
    /\ \E q \in last_cleanup.attempted \cap last_cleanup.removed :
          \E f \in last_cleanup.attempted : f # q /\ Exists(fs, f)

Rank(step) ==
    CASE step = "Idle" -> 0
      [] step = "Normalizing" -> 1
      [] step \in {"Normalized", "NormalizeFailed"} -> 2
      [] step = "Analyzing" -> 3
      [] step \in {"Analyzed", "AnalyzeFailed"} -> 4
      [] step = "Parsed" -> 5
      [] step = "Displayed" -> 6
      [] step = "CleanedUp" -> 7

Before(a, b) ==
    \E i, j \in 1..Len(steps) : i < j /\ steps[i] = a /\ steps[j] = b

\* C8: a run is linear: its states come only in the order Idle, Normalizing,
\* Normalized or NormalizeFailed, Analyzing, Analyzed or AnalyzeFailed,
\* Parsed, Displayed, CleanedUp, none of them twice; the client is called at
\* most once; the cleanup comes after the display and never before the
\* audio went to the client.
C8_LinearRun ==
    /\ \A i, j \in 1..Len(steps) : i < j => Rank(steps[i]) < Rank(steps[j])
    /\ remote_calls <= 1
    /\ "CleanedUp" \in SeqToSet(steps) => Before("Analyzing", "CleanedUp")
    /\ "Displayed" \in SeqToSet(steps) =>
          Before("Parsed", "Displayed") /\ Before("Displayed", "CleanedUp")
    /\ "Parsed" \in SeqToSet(steps) => Before("Analyzed", "Parsed")

\* A run that went all the way.
C8_Witness ==
    steps = <<"Idle", "Normalizing", "Normalized", "Analyzing", "Analyzed",
              "Parsed", "Displayed", "CleanedUp">>

\* C9: a failure of the client goes no further: when the remote call raises
\* or the response is empty after strip, the client reports it and returns
\* None without raising, the parser is not called and no result is shown;
\* the parser is only ever called with a text that is not empty.
C9_AnalysisFailureContained ==
    /\ "AnalyzeFailed" \in SeqToSet(steps) =>
          /\ gemini_raw_output = NoneText
          /\ parser_calls = 0
          /\ parsed_results = Unset
          /\ ui \cap {"error_invalid_path", "error_gemini", "warning_empty"} # {}
          /\ ui \cap {"subheader_results", "result_fields", "raw_output",
                      "error_analysis"} = {}
    /\ parser_calls > 0 => Truthy(gemini_raw_output)

\* The remote service answered with whitespace only.
C9_Witness ==
    /\ "AnalyzeFailed" \in SeqToSet(steps)
    /\ Last(steps) = "CleanedUp"
    /\ "warning_empty" \in ui
    /\ remote_calls = 1

\* C10: wherever a normalizer fails, every temp file or directory it has
\* made so far is in one of the tracked lists or inside a tracked directory.
C10_FailuresLeaveCleanableState ==
    (pc = "Check" /\ processed_audio_path = NoPath) =>
        \A p \in created : p \in TrackedFiles \cup TrackedDirs
                              \/ Parent(p) \in TrackedDirs

====
